---- MODULE Spec2Model ----
(***************************************************************************)
(* Model of the SES email forwarder Lambda (src/index.js).                 *)
(*                                                                         *)
(* Text is modelled as a sequence of tokens.  A token is either a single   *)
(* character that the code's regular expressions distinguish (newline,     *)
(* carriage return, space, "<", ">", "+", "@") or a word that stands for a *)
(* run of characters none of the expressions looks into (a header name     *)
(* with its colon, a display name, an address, a domain).  The regular     *)
(* expressions of the source are written as syntax trees and run by a      *)
(* matcher with the priorities of ECMAScript's backtracking.               *)
(***************************************************************************)
EXTENDS Integers, Sequences, FiniteSets, TLC

(***************************************************************************)
(* Sequence helpers.                                                       *)
(***************************************************************************)
Sub(s, a, b) == IF a >= b THEN <<>> ELSE SubSeq(s, a, b - 1)

Rest(s, a) == Sub(s, a, Len(s) + 1)

RECURSIVE Flatten(_)
Flatten(ss) == IF Len(ss) = 0 THEN <<>> ELSE Head(ss) \o Flatten(Tail(ss))

SeqsUpTo(S, n) == UNION { [1..k -> S] : k \in 0..n }

\* The first index from i on at which s holds c, or 0.
IndexOf(s, c, i) ==
  IF \E j \in i..Len(s) : s[j] = c
    THEN CHOOSE j \in i..Len(s) : s[j] = c /\ \A k \in i..(j - 1) : s[k] # c
    ELSE 0

Contains(s, c) == IndexOf(s, c, 1) # 0

(***************************************************************************)
(* Regular expressions: syntax.                                            *)
(***************************************************************************)
Cls(S) == [t |-> "cls", set |-> S]

NotCls(S) == [t |-> "ncls", set |-> S]

Bol == [t |-> "bol"]

Cat(rs) == [t |-> "cat", rs |-> rs]

Opt(r) == [t |-> "opt", r |-> r]

Star(r) == [t |-> "star", r |-> r]

Plus(r) == Cat(<<r, Star(r)>>)

Mark(n) == [t |-> "mark", n |-> n]

LineTerminators == {"\n", "\r"}

Dot == NotCls(LineTerminators)

Ws == Cls({" ", "\t", "\n", "\r"})

TabSp == Cls({"\t", " "})

CR == Cls({"\r"})

LF == Cls({"\n"})

(***************************************************************************)
(* Header-name tokens and String.prototype.toLowerCase on them: the /i     *)
(* flag makes a literal match every token that lowercases to it.           *)
(***************************************************************************)
LowerName ==
  [tok \in {"From:", "from:", "Reply-To:", "reply-to:", "Subject:", "To:",
            "Return-Path:", "Sender:", "Message-ID:", "message-id:",
            "DKIM-Signature:", "dkim-signature:", "X-Mailer:"} |->
     CASE tok \in {"From:", "from:"} -> "from:"
       [] tok \in {"Reply-To:", "reply-to:"} -> "reply-to:"
       [] tok = "Subject:" -> "subject:"
       [] tok = "To:" -> "to:"
       [] tok = "Return-Path:" -> "return-path:"
       [] tok = "Sender:" -> "sender:"
       [] tok \in {"Message-ID:", "message-id:"} -> "message-id:"
       [] tok \in {"DKIM-Signature:", "dkim-signature:"} -> "dkim-signature:"
       [] OTHER -> "x-mailer:"]

ICase(lit) == Cls({tok \in DOMAIN LowerName : LowerName[tok] = lit})

(***************************************************************************)
(* Regular expressions: the matcher.  A match state is a position with the *)
(* capture bounds set so far.  Ends(r, s, t) lists the states in which r   *)
(* can end from state t, in the order in which ECMAScript's backtracking   *)
(* tries them (a quantifier's longer match first); of two states at one    *)
(* position the first stands for both, since what follows depends on the   *)
(* position alone and the first is the one backtracking reaches first.     *)
(***************************************************************************)
NoCaps == [a |-> 0, b |-> 0, c |-> 0, d |-> 0]

NoMatch == [ok |-> FALSE, start |-> 0, end |-> 0, caps |-> NoCaps]

LineStart(s, i) == i = 1 \/ s[i - 1] \in LineTerminators

\* Whether the character class r holds the character c.
InClass(r, c) == IF r.t = "cls" THEN c \in r.set ELSE c \notin r.set

\* The end of the longest run of characters of class r from position i.
ClassRun(r, s, i) ==
  CHOOSE e \in i..(Len(s) + 1) :
    /\ \A j \in i..(e - 1) : InClass(r, s[j])
    /\ e = Len(s) + 1 \/ ~InClass(r, s[e])

\* The states ts without those whose position an earlier one has.
Uniq(ts) ==
  LET First(k) == \A j \in 1..(k - 1) : ts[j].pos # ts[k].pos
      keep == SelectSeq([k \in 1..Len(ts) |-> k], First)
  IN [n \in 1..Len(keep) |-> ts[keep[n]]]

RECURSIVE Ends(_, _, _)
RECURSIVE Each(_, _, _)
RECURSIVE Iterate(_, _, _, _)
RECURSIVE Iterations(_, _, _, _)

\* The nodes rs one after the other, from each of the states ts.
Each(rs, s, ts) ==
  IF Len(rs) = 0 \/ Len(ts) = 0 THEN ts
  ELSE Each(Tail(rs), s,
            IF Len(ts) = 1 THEN Ends(Head(rs), s, ts[1])
            ELSE Uniq(Flatten([k \in 1..Len(ts) |-> Ends(Head(rs), s, ts[k])])))

\* A greedy star over r from state t: every iteration that consumes something
\* is tried, longest first, before the star is left at t.  walk.out lists the
\* positions where the star is left, walk.seen those tried already.
Iterate(r, s, t, walk) ==
  LET after == Iterations(r, s, Ends(r, s, t),
                          [walk EXCEPT !.seen = @ \cup {t.pos}])
  IN [after EXCEPT !.out = Append(@, t.pos)]

Iterations(r, s, ts, walk) ==
  IF Len(ts) = 0 THEN walk
  ELSE Iterations(r, s, Tail(ts),
                  IF Head(ts).pos \in walk.seen THEN walk
                  ELSE Iterate(r, s, Head(ts), walk))

Ends(r, s, t) ==
  CASE r.t \in {"cls", "ncls"} ->
         IF t.pos <= Len(s) /\ InClass(r, s[t.pos])
           THEN <<[t EXCEPT !.pos = @ + 1]>> ELSE <<>>
    [] r.t = "bol" -> IF LineStart(s, t.pos) THEN <<t>> ELSE <<>>
    [] r.t = "mark" -> <<[t EXCEPT !.caps[r.n] = t.pos]>>
    [] r.t = "cat" -> Each(r.rs, s, <<t>>)
    [] r.t = "opt" -> Uniq(Ends(r.r, s, t) \o <<t>>)
    [] r.t = "star" ->
         IF r.r.t \in {"cls", "ncls"}
           THEN LET e == ClassRun(r.r, s, t.pos)
                IN [k \in 1..(e - t.pos + 1) |-> [t EXCEPT !.pos = e - k + 1]]
           ELSE LET out == Iterate(r.r, s, t, [out |-> <<>>, seen |-> {}]).out
                IN [k \in 1..Len(out) |-> [t EXCEPT !.pos = out[k]]]

\* Whether re matches s from position p on.
Matches(re, s, p) == Len(Ends(re, s, [pos |-> p, caps |-> NoCaps])) > 0

\* RegExp.prototype.exec from position `from`: the leftmost match, and of the
\* matches from there the first.
Exec(re, s, from) ==
  LET starts == { p \in from..(Len(s) + 1) : Matches(re, s, p) }
  IN IF starts = {} THEN NoMatch
     ELSE LET first == CHOOSE p \in starts : \A q \in starts : p <= q
              end == Ends(re, s, [pos |-> first, caps |-> NoCaps])[1]
          IN [ok |-> TRUE, start |-> first, end |-> end.pos, caps |-> end.caps]

Test(re, s) == Exec(re, s, 1).ok

Group1(s, m) == Sub(s, m.caps.a, m.caps.b)

Group2(s, m) == Sub(s, m.caps.c, m.caps.d)

(***************************************************************************)
(* String methods used by the code.                                        *)
(***************************************************************************)
IsWhite(c) == c \in {" ", "\t", "\n", "\r"}

\* String.prototype.trim
RECURSIVE TrimStart(_)
TrimStart(s) ==
  IF Len(s) > 0 /\ IsWhite(s[1]) THEN TrimStart(Tail(s)) ELSE s

RECURSIVE TrimEnd(_)
TrimEnd(s) ==
  IF Len(s) > 0 /\ IsWhite(s[Len(s)]) THEN TrimEnd(Sub(s, 1, Len(s))) ELSE s

Trim(s) == TrimEnd(TrimStart(s))

\* String.prototype.replace with a string pattern: the first occurrence only.
ReplaceFirst(s, c, with) ==
  LET i == IndexOf(s, c, 1)
  IN IF i = 0 THEN s ELSE Sub(s, 1, i) \o with \o Rest(s, i + 1)

(***************************************************************************)
(* processMessage: the regular expressions of src/index.js lines 160-217.  *)
(***************************************************************************)
\* /^((?:.+\r?\n)*)(\r?\n(?:.*\s+)*)/m
ReSplit ==
  Cat(<<Bol,
        Mark("a"), Star(Cat(<<Plus(Dot), Opt(CR), LF>>)), Mark("b"),
        Mark("c"), Opt(CR), LF, Star(Cat(<<Star(Dot), Plus(Ws)>>)), Mark("d")>>)

\* /^reply-to:[\t ]?/mi
ReReplyTo == Cat(<<Bol, ICase("reply-to:"), Opt(TabSp)>>)

\* .*(?:\r?\n\s+.*)*
ReFolded == Cat(<<Star(Dot), Star(Cat(<<Opt(CR), LF, Plus(Ws), Star(Dot)>>))>>)

\* /^from:[\t ]?(.*(?:\r?\n\s+.*)*\r?\n)/mi
ReFromLine ==
  Cat(<<Bol, ICase("from:"), Opt(TabSp),
        Mark("a"), ReFolded, Opt(CR), LF, Mark("b")>>)

\* /^from:[\t ]?(.*(?:\r?\n\s+.*)*)/mgi
ReFrom ==
  Cat(<<Bol, ICase("from:"), Opt(TabSp), Mark("a"), ReFolded, Mark("b")>>)

\* /<(.*)>/
ReAngle == Cat(<<Cls({"<"}), Mark("a"), Star(Dot), Mark("b"), Cls({">"})>>)

\* /^subject:[\t ]?(.*)/mgi
ReSubject ==
  Cat(<<Bol, ICase("subject:"), Opt(TabSp), Mark("a"), Star(Dot), Mark("b")>>)

\* /^to:[\t ]?(.*)/mgi
ReTo == Cat(<<Bol, ICase("to:"), Opt(TabSp), Mark("a"), Star(Dot), Mark("b")>>)

\* /^<name>[\t ]?(.*)\r?\n/mgi for return-path:, sender: and message-id:
ReLine(name) ==
  Cat(<<Bol, ICase(name), Opt(TabSp),
        Mark("a"), Star(Dot), Mark("b"), Opt(CR), LF>>)

\* /^dkim-signature:[\t ]?.*\r?\n(\s+.*\r?\n)*/mgi
ReDkim ==
  Cat(<<Bol, ICase("dkim-signature:"), Opt(TabSp), Star(Dot), Opt(CR), LF,
        Star(Cat(<<Plus(Ws), Star(Dot), Opt(CR), LF>>))>>)

\* The callback of the From replacement (lines 178-188).  A config value that
\* is unset or '' is the empty sequence; an undefined originalRecipient is
\* concatenated as the text "undefined".
FromText(from, config, originalRecipient) ==
  IF Len(config.fromEmail) > 0
    THEN LET m == Exec(ReAngle, from, 1)
             stripped == IF m.ok THEN Sub(from, 1, m.start) \o Rest(from, m.end)
                                 ELSE from
         IN <<"From:", " ">> \o Trim(stripped)
              \o <<" ", "<">> \o config.fromEmail \o <<">">>
    ELSE <<"From:", " ">>
           \o ReplaceFirst(ReplaceFirst(from, "<", <<"at", " ">>), ">", <<>>)
           \o <<" ", "<">> \o originalRecipient \o <<">">>

Replacement(kind, s, m, config, originalRecipient) ==
  CASE kind = "from" -> FromText(Group1(s, m), config, originalRecipient)
    [] kind = "subject" ->
         <<"Subject:", " ">> \o config.subjectPrefix \o Group1(s, m)
    [] kind = "to" -> <<"To:", " ">> \o config.toEmail
    [] kind = "delete" -> <<>>

\* String.prototype.replace with a global regular expression.
RECURSIVE ReplaceAll(_, _, _, _, _, _)
ReplaceAll(re, s, pos, kind, config, originalRecipient) ==
  LET m == Exec(re, s, pos)
  IN IF ~m.ok THEN Rest(s, pos)
     ELSE Sub(s, pos, m.start)
            \o Replacement(kind, s, m, config, originalRecipient)
            \o (IF m.end > m.start
                  THEN ReplaceAll(re, s, m.end, kind, config, originalRecipient)
                  ELSE IF m.end > Len(s) THEN <<>>
                  ELSE <<s[m.end]>>
                         \o ReplaceAll(re, s, m.end + 1, kind, config,
                                       originalRecipient))

\* Lines 160-162.
SplitHeader(emailData) ==
  LET match == Exec(ReSplit, emailData, 1)
  IN IF match.ok /\ Len(Group1(emailData, match)) > 0
       THEN Group1(emailData, match) ELSE emailData

SplitBody(emailData) ==
  LET match == Exec(ReSplit, emailData, 1)
  IN IF match.ok /\ Len(Group2(emailData, match)) > 0
       THEN Group2(emailData, match) ELSE <<>>

\* Lines 164-171.
AddReplyTo(header) ==
  IF ~Test(ReReplyTo, header)
    THEN LET match == Exec(ReFromLine, header, 1)
             from == IF match.ok THEN Group1(header, match) ELSE <<>>
         IN IF Len(from) > 0
              THEN header \o <<"Reply-To:", " ">> \o from ELSE header
    ELSE header

\* Lines 176-188.
RewriteFrom(header, config, originalRecipient) ==
  ReplaceAll(ReFrom, header, 1, "from", config, originalRecipient)

\* Lines 191-197.
PrefixSubject(header, config) ==
  IF Len(config.subjectPrefix) > 0
    THEN ReplaceAll(ReSubject, header, 1, "subject", config, <<>>)
    ELSE header

\* Lines 200-202.
ReplaceTo(header, config) ==
  IF Len(config.toEmail) > 0
    THEN ReplaceAll(ReTo, header, 1, "to", config, <<>>)
    ELSE header

\* Lines 205, 208, 211 and 217.
RemoveLine(header, name) ==
  ReplaceAll(ReLine(name), header, 1, "delete", [fromEmail |-> <<>>], <<>>)

RemoveDkim(header) ==
  ReplaceAll(ReDkim, header, 1, "delete", [fromEmail |-> <<>>], <<>>)

RemoveHeaders(header) ==
  RemoveDkim(RemoveLine(RemoveLine(RemoveLine(header,
    "return-path:"), "sender:"), "message-id:"))

\* The header as line 219 finds it, and the whole of processMessage.
ProcessHeader(emailData, config, originalRecipient) ==
  RemoveHeaders(ReplaceTo(PrefixSubject(
    RewriteFrom(AddReplyTo(SplitHeader(emailData)), config, originalRecipient),
    config), config))

ProcessMessage(emailData, config, originalRecipient) ==
  ProcessHeader(emailData, config, originalRecipient) \o SplitBody(emailData)

(***************************************************************************)
(* Raw messages: header lines, an optional blank line and body lines, all  *)
(* ended the same way (LF or CRLF).                                        *)
(***************************************************************************)
MaxHeaderLines == 2

HeaderLines ==
  { <<"From:", " ", "Jane", " ", "<", "jane@example.com", ">">>,
    <<"from:", "bob@example.com">>,
    <<" ", "folded">>,
    <<" ">>,
    <<"Reply-To:", " ", "r@example.com">>,
    <<"reply-to:", "q@example.com">>,
    <<"Subject:", " ", "Hi">>,
    <<"To:", " ", "info@example.com">>,
    <<"Return-Path:", " ", "<", "p@example.com", ">">>,
    <<"Sender:", " ", "s@example.com">>,
    <<"message-id:", "<", "id1", ">">>,
    <<"DKIM-Signature:", " ", "v=1">>,
    <<"X-Mailer:", " ", "m">> }

\* A body: whether the blank line is there, the lines after it, and whether
\* the last of them is ended.
Bodies ==
  { [blank |-> FALSE, lines |-> <<>>, ended |-> TRUE],
    [blank |-> TRUE, lines |-> <<>>, ended |-> TRUE],
    [blank |-> TRUE, lines |-> << <<"Hello", " ", "world">> >>, ended |-> TRUE],
    [blank |-> TRUE, lines |-> << <<"Hello", " ", "world">> >>, ended |-> FALSE],
    [blank |-> TRUE, lines |-> << <<"From:", " ", "quoted">> >>, ended |-> TRUE],
    [blank |-> TRUE,
     lines |-> << <<"Hi">>, <<>>, <<"Sender:", " ", "x">> >>, ended |-> TRUE] }

Eols == { <<"\n">>, <<"\r", "\n">> }

JoinLines(lines, eol) == Flatten([i \in 1..Len(lines) |-> lines[i] \o eol])

BodyText(body, eol) ==
  IF ~body.blank THEN <<>>
  ELSE LET text == eol \o JoinLines(body.lines, eol)
       IN IF body.ended THEN text ELSE Sub(text, 1, Len(text) - Len(eol) + 1)

RawMessage(lines, body, eol) == JoinLines(lines, eol) \o BodyText(body, eol)

\* Headers longer than MaxHeaderLines: a signature folded twice before another
\* header, a folded From between two headers, and a folded Return-Path after
\* a Reply-To.
LongHeaders ==
  { << <<"DKIM-Signature:", " ", "v=1">>, <<" ", "folded">>, <<" ", "folded">>,
       <<"X-Mailer:", " ", "m">> >>,
    << <<"Subject:", " ", "Hi">>,
       <<"From:", " ", "Jane", " ", "<", "jane@example.com", ">">>,
       <<" ", "folded">>, <<"To:", " ", "info@example.com">> >>,
    << <<"Reply-To:", " ", "r@example.com">>,
       <<"Return-Path:", " ", "<", "p@example.com", ">">>, <<" ", "folded">> >> }

Messages ==
  { RawMessage(lines, body, eol) :
      lines \in SeqsUpTo(HeaderLines, MaxHeaderLines) \cup LongHeaders,
      body \in Bodies, eol \in Eols }


(***************************************************************************)
(* transformRecipients (lines 90-118).  An address is a sequence of        *)
(* tokens; "+" and "@" are tokens of their own.                            *)
(***************************************************************************)
\* String.prototype.toLowerCase, token by token.
LowerWord(w) ==
  CASE w = "Info" -> "info"
    [] w = "Example.com" -> "example.com"
    [] OTHER -> w

ToLowerCase(s) == [i \in 1..Len(s) |-> LowerWord(s[i])]

\* String.prototype.split with a one-character separator.
RECURSIVE Split(_, _)
Split(s, sep) ==
  LET i == IndexOf(s, sep, 1)
  IN IF i = 0 THEN <<s>> ELSE <<Sub(s, 1, i)>> \o Split(Rest(s, i + 1), sep)

\* Lines 95-97.
OrigEmailKey(origEmail, config) ==
  IF config.allowPlusSign
    THEN Split(ToLowerCase(origEmail), "+")[1]
    ELSE ToLowerCase(origEmail)

\* The names every object literal inherits from Object.prototype: looked up
\* in forwardMapping they give a function or an object, never an array.
Inherited == { <<"constructor">>, <<"__proto__">> }

\* forwardMapping[key] is truthy: an array of its own, or an inherited value.
Mapped(config, key) == key \in DOMAIN config.forwardMapping \/ key \in Inherited

\* forwardMapping[key].forEach(email => newRecipients.add(email)): the emails
\* that are added, or the TypeError of a value that has no forEach.
ForEach(config, key) ==
  IF key \in DOMAIN config.forwardMapping
    THEN [threw |-> FALSE, emails |-> config.forwardMapping[key]]
    ELSE [threw |-> TRUE, emails |-> <<>>]

\* Lines 100-113: the destinations one original address adds.
Forwarded(origEmail, config) ==
  LET origEmailKey == OrigEmailKey(origEmail, config)
      parts == Split(origEmailKey, "@")
      origEmailUser == parts[1]
      hasDomain == Len(parts) >= 2 /\ Len(parts[2]) > 0
      domainKey == <<"@">> \o (IF Len(parts) >= 2 THEN parts[2] ELSE <<>>)
  IN IF Mapped(config, origEmailKey)
       THEN ForEach(config, origEmailKey)
     ELSE IF hasDomain /\ Mapped(config, domainKey)
       THEN ForEach(config, domainKey)
     ELSE IF Len(origEmailUser) > 0 /\ Mapped(config, origEmailUser)
       THEN ForEach(config, origEmailUser)
     ELSE IF Mapped(config, <<"@">>)
       THEN ForEach(config, <<"@">>)
     ELSE [threw |-> FALSE, emails |-> <<>>]

\* An add that keeps what the Set holds already.
AddAgain(set, x) == Append(set, x)

\* Set.prototype.add on a Set kept in insertion order.
SetAdd(set, x) == IF Contains(set, x) THEN set ELSE Append(set, x)

RECURSIVE AddEach(_, _)
AddEach(set, xs) ==
  IF Len(xs) = 0 THEN set ELSE AddEach(SetAdd(set, Head(xs)), Tail(xs))

\* Lines 91-116: the loop over the original recipients, then Array.from; a
\* TypeError ends the loop.
RECURSIVE NewRecipients(_, _, _)
NewRecipients(set, originalRecipients, config) ==
  IF Len(originalRecipients) = 0 THEN [threw |-> FALSE, recipients |-> set]
  ELSE LET forwarded == Forwarded(Head(originalRecipients), config)
       IN IF forwarded.threw THEN [threw |-> TRUE, recipients |-> set]
          ELSE NewRecipients(AddEach(set, forwarded.emails),
                             Tail(originalRecipients), config)

(***************************************************************************)
(* Inputs of an invocation: the event, the configuration, the stored       *)
(* object.                                                                 *)
(***************************************************************************)
MaxRecipients == 2

Addresses ==
  { <<"info", "@", "example.com">>,
    <<"Info", "@", "Example.com">>,
    <<"info", "+", "tag", "@", "example.com">>,
    <<"sales", "@", "example.com">>,
    <<"info", "@", "other.org">>,
    <<"sales", "+", "tag", "@", "other.org">>,
    <<"constructor", "@", "other.org">> }

\* The keys a forwardMapping may hold, each with its destination list.
MappingEntries ==
  (<<"info", "@", "example.com">> :> <<"john", "jen">>)
    @@ (<<"@", "example.com">> :> <<"jim", "john">>)
    @@ (<<"info">> :> <<"ann">>)
    @@ (<<"@">> :> <<"bob", "jen", "bob">>)
    @@ (<<"info", "+", "tag", "@", "example.com">> :> <<"tom">>)

ForwardMappings ==
  { [k \in keys |-> MappingEntries[k]] : keys \in SUBSET DOMAIN MappingEntries }

\* A forwardMapping of the shape of defaultConfig's (lines 45-56): an exact
\* key and the key of its domain.
DefaultMapping ==
  [k \in { <<"info", "@", "example.com">>, <<"@", "example.com">> } |->
     MappingEntries[k]]

Record(valid, recipients) ==
  [hasEventSource |-> valid \notin {"noEventSource"},
   eventSource |-> IF valid = "wrongSource" THEN "aws:sns" ELSE "aws:ses",
   eventVersion |-> IF valid = "wrongVersion" THEN "2.0" ELSE "1.0",
   hasSes |-> valid # "noSes",
   messageId |-> "m1",
   recipients |-> recipients]

Event(shape, recipients) ==
  [present |-> shape # "noEvent",
   hasRecords |-> shape \notin {"noEvent", "noRecords"},
   Records |->
     CASE shape \in {"noEvent", "noRecords", "zeroRecords"} -> <<>>
       [] shape = "twoRecords" ->
            <<Record("ok", recipients), Record("ok", recipients)>>
       [] OTHER -> <<Record(shape, recipients)>>]

BadShapes ==
  {"noEvent", "noRecords", "zeroRecords", "twoRecords", "noEventSource",
   "wrongSource", "wrongVersion", "noSes"}

Events(recipientLists) ==
  { Event("ok", r) : r \in recipientLists }
    \cup { Event(shape, <<<<"info", "@", "example.com">>>>) : shape \in BadShapes }

StoredObjects(messages) ==
  { [found |-> TRUE, body |-> m] : m \in messages }
    \cup { [found |-> FALSE, body |-> <<>>] }

\* A configuration; an option that is unset or '' is the empty sequence.
Config(fromEmail, subjectPrefix, toEmail, allowPlusSign, forwardMapping) ==
  [fromEmail |-> fromEmail,
   subjectPrefix |-> subjectPrefix,
   toEmail |-> toEmail,
   emailBucket |-> "your-s3-bucket-name",
   emailKeyPrefix |-> "emailsPrefix/",
   allowPlusSign |-> allowPlusSign,
   forwardMapping |-> forwardMapping]

FromEmails == { <<>>, <<"noreply@example.com">> }

Inputs(events, configs, objects) ==
  { [event |-> e, config |-> c, object |-> o] :
      e \in events, c \in configs, o \in objects }

Undefined == <<"undefined">>

(***************************************************************************)
(* handler (lines 258-286): the steps run one after the other over `data`. *)
(***************************************************************************)
VARIABLES pc, data, s3, s3Calls, sesCalls, callbacks, trace

vars == <<pc, data, s3, s3Calls, sesCalls, callbacks, trace>>

\* Lines 260-266.
Steps ==
  <<"parseEvent", "transformRecipients", "fetchMessage", "processMessage",
    "sendMessage">>

StepAfter(step) ==
  LET i == CHOOSE j \in 1..Len(Steps) : Steps[j] = step
  IN IF i < Len(Steps) THEN Steps[i + 1] ELSE "finished"

\* A property of `data`, undefined when the object has none of that name.
Field(d, name) == IF name \in DOMAIN d THEN d[name] ELSE Undefined

\* Lines 268-274: `data` as the handler builds it.
InitWith(inputs) ==
  /\ pc = Steps[1]
  /\ \E in \in inputs :
       /\ data = [event |-> in.event, config |-> in.config]
       /\ s3 = in.object
  /\ s3Calls = <<>>
  /\ sesCalls = <<>>
  /\ callbacks = <<>>
  /\ trace = <<>>

\* Lines 282-285: a step threw or rejected.
Catch(error) ==
  /\ pc' = "failed"
  /\ callbacks' = Append(callbacks, [error |-> error, result |-> "none"])

\* Line 277 when the step resolves with `d`; lines 280-281 after the last.
Resolve(step, d) ==
  /\ data' = d
  /\ IF StepAfter(step) = "finished"
       THEN /\ pc' = "done"
            /\ callbacks' = Append(callbacks, [error |-> "null", result |-> "Success"])
       ELSE /\ pc' = StepAfter(step)
            /\ UNCHANGED callbacks

\* The test of lines 68-73 without that of the eventVersion.
AnyVersion(event) ==
  \/ ~event.present
  \/ ~event.hasRecords
  \/ Len(event.Records) # 1
  \/ ~event.Records[1].hasEventSource
  \/ event.Records[1].eventSource # "aws:ses"

\* Lines 68-73.
InvalidEvent(event) ==
  \/ ~event.present
  \/ ~event.hasRecords
  \/ Len(event.Records) # 1
  \/ ~event.Records[1].hasEventSource
  \/ event.Records[1].eventSource # "aws:ses"
  \/ event.Records[1].eventVersion # "1.0"

\* Lines 66-80.
parseEvent ==
  /\ pc = "parseEvent"
  /\ trace' = Append(trace, "parseEvent")
  /\ IF InvalidEvent(data.event)
       THEN Catch("Error: Received invalid SES message.") /\ UNCHANGED data
     ELSE IF ~data.event.Records[1].hasSes
       THEN Catch("TypeError") /\ UNCHANGED data
     ELSE Resolve("parseEvent",
                  ("email" :> [messageId |-> data.event.Records[1].messageId])
                    @@ ("recipients" :> data.event.Records[1].recipients)
                    @@ data)
  /\ UNCHANGED <<s3, s3Calls, sesCalls>>

\* Lines 90-118.
transformRecipients ==
  /\ pc = "transformRecipients"
  /\ trace' = Append(trace, "transformRecipients")
  /\ LET d == ("originalRecipients" :> data.recipients) @@ data
         new == NewRecipients(<<>>, data.recipients, data.config)
     IN IF new.threw
          THEN Catch("TypeError") /\ data' = d
          ELSE Resolve("transformRecipients",
                       [d EXCEPT !.recipients = new.recipients])
  /\ UNCHANGED <<s3, s3Calls, sesCalls>>

\* Lines 128-136: the GetObject request goes out.
fetchMessage ==
  /\ pc = "fetchMessage"
  /\ trace' = Append(trace, "fetchMessage")
  /\ s3Calls' = Append(s3Calls,
                       [Bucket |-> data.config.emailBucket,
                        Key |-> <<data.config.emailKeyPrefix, data.email.messageId>>,
                        reply |-> "pending"])
  /\ pc' = "awaitS3"
  /\ UNCHANGED <<data, s3, sesCalls, callbacks>>

\* Lines 136-148: the response, or the failure, of S3.
fetchMessageDone ==
  /\ pc = "awaitS3"
  /\ \E ok \in {s3.found, FALSE} :
       IF ok
         THEN /\ s3Calls' = [s3Calls EXCEPT ![Len(s3Calls)].reply = "ok"]
              /\ Resolve("fetchMessage", ("emailData" :> s3.body) @@ data)
         ELSE /\ s3Calls' = [s3Calls EXCEPT ![Len(s3Calls)].reply = "error"]
              /\ Catch("Error: Failed to load message body from S3.")
              /\ UNCHANGED data
  /\ UNCHANGED <<s3, sesCalls, trace>>

\* Lines 159-221.
processMessage ==
  /\ pc = "processMessage"
  /\ trace' = Append(trace, "processMessage")
  /\ Resolve("processMessage",
             [data EXCEPT !.emailData =
                ProcessMessage(data.emailData, data.config,
                               Field(data, "originalRecipient"))])
  /\ UNCHANGED <<s3, s3Calls, sesCalls>>

\* Lines 230-239: the SendRawEmail request goes out.
sendMessage ==
  /\ pc = "sendMessage"
  /\ trace' = Append(trace, "sendMessage")
  /\ sesCalls' = Append(sesCalls,
                        [Destinations |-> data.recipients,
                         Source |-> Field(data, "originalRecipient"),
                         RawMessage |-> data.emailData,
                         reply |-> "pending"])
  /\ pc' = "awaitSES"
  /\ UNCHANGED <<data, s3, s3Calls, callbacks>>

\* Lines 239-244: the callback of ses.send.
sendMessageDone ==
  /\ pc = "awaitSES"
  /\ \E err \in BOOLEAN :
       IF err
         THEN /\ sesCalls' = [sesCalls EXCEPT ![Len(sesCalls)].reply = "error"]
              /\ Catch("Error: Email sending failed.")
              /\ UNCHANGED data
         ELSE /\ sesCalls' = [sesCalls EXCEPT ![Len(sesCalls)].reply = "ok"]
              /\ Resolve("sendMessage", data)
  /\ UNCHANGED <<s3, s3Calls, trace>>

Next ==
  \/ parseEvent
  \/ transformRecipients
  \/ fetchMessage
  \/ fetchMessageDone
  \/ processMessage
  \/ sendMessage
  \/ sendMessageDone

(***************************************************************************)
(* Specifications.  Spec runs the handler over every event shape, a few    *)
(* configurations and stored messages; SpecRecipients over every           *)
(* forwardMapping; SpecMessages over every raw message.                    *)
(***************************************************************************)
RecipientLists == SeqsUpTo(Addresses, MaxRecipients)

PipelineLists ==
  SeqsUpTo({ <<"info", "@", "example.com">>,
             <<"sales", "+", "tag", "@", "other.org">>,
             <<"constructor", "@", "other.org">> }, MaxRecipients)

Scenario3 ==
  RawMessage(<< <<"From:", " ", "Jane", " ", "<", "jane@example.com", ">">>,
                <<"Subject:", " ", "Hi">> >>,
             [blank |-> TRUE, lines |-> << <<"Hello", " ", "world">> >>,
              ended |-> TRUE],
             <<"\r", "\n">>)

NoFrom ==
  RawMessage(<< <<"Subject:", " ", "Hi">> >>,
             [blank |-> TRUE, lines |-> << <<"Hello", " ", "world">> >>,
              ended |-> TRUE],
             <<"\n">>)

CatchAll == [k \in { <<"@">> } |-> MappingEntries[k]]

NoMapping == [k \in {} |-> <<>>]

PipelineConfigs ==
  { Config(f, <<>>, <<>>, plus, fm) :
      f \in FromEmails, plus \in BOOLEAN,
      fm \in {DefaultMapping, CatchAll, NoMapping} }

Init ==
  InitWith(Inputs(Events(PipelineLists), PipelineConfigs,
                  StoredObjects({Scenario3, NoFrom})))

Spec == Init /\ [][Next]_vars

RecipientConfigs ==
  { Config(<<"noreply@example.com">>, <<>>, <<>>, plus, fm) :
      plus \in BOOLEAN, fm \in ForwardMappings }

InitRecipients ==
  InitWith(Inputs(Events(RecipientLists), RecipientConfigs, StoredObjects({}))
             \cup Inputs({Event("ok", <<<<"info", "@", "example.com">>>>)},
                         RecipientConfigs, StoredObjects({Scenario3})))

SpecRecipients == InitRecipients /\ [][Next]_vars

MessageConfigs ==
  { Config(f, p, t, TRUE, DefaultMapping) :
      f \in FromEmails,
      p \in {<<>>, <<"[fwd]", " ">>},
      t \in {<<>>, <<"me@example.com">>} }

InitMessages ==
  InitWith(Inputs(Events({<<<<"info", "@", "example.com">>>>}),
                  { Config(<<>>, <<>>, <<>>, TRUE, DefaultMapping) },
                  StoredObjects({Scenario3}))
             \cup Inputs({Event("ok", <<<<"info", "@", "example.com">>>>)},
                         MessageConfigs, StoredObjects(Messages)))

SpecMessages == InitMessages /\ [][Next]_vars

(***************************************************************************)
(* Recipient resolution as the specification words it (section 4.2).       *)
(***************************************************************************)
\* transformRecipients has returned.
Resolved == Len(trace) >= 2 /\ ~(Len(trace) = 2 /\ pc = "failed")

\* 'user+tag@domain' without its tag: the local part cut at its first "+".
WithoutTag(address) ==
  LET at == IndexOf(address, "@", 1)
      plus == IndexOf(address, "+", 1)
  IN IF plus # 0 /\ (at = 0 \/ plus < at)
       THEN Sub(address, 1, plus) \o (IF at = 0 THEN <<>> ELSE Rest(address, at))
       ELSE address

Normalized(address, config) ==
  IF config.allowPlusSign
    THEN WithoutTag(ToLowerCase(address)) ELSE ToLowerCase(address)

\* The destinations of the one key that applies to a normalized address.
TierDestinations(n, forwardMapping) ==
  LET at == IndexOf(n, "@", 1)
      local == IF at = 0 THEN n ELSE Sub(n, 1, at)
      domainKey == IF at = 0 THEN <<>> ELSE Rest(n, at)
  IN IF n \in DOMAIN forwardMapping THEN forwardMapping[n]
     ELSE IF Len(domainKey) > 1 /\ domainKey \in DOMAIN forwardMapping
       THEN forwardMapping[domainKey]
     ELSE IF local \in DOMAIN forwardMapping THEN forwardMapping[local]
     ELSE IF <<"@">> \in DOMAIN forwardMapping THEN forwardMapping[<<"@">>]
     ELSE <<>>

\* A list without the later occurrences of its elements.
RECURSIVE FirstOccurrences(_)
FirstOccurrences(xs) ==
  IF Len(xs) = 0 THEN <<>>
  ELSE LET init == Sub(xs, 1, Len(xs))
           last == xs[Len(xs)]
       IN IF \E j \in 1..Len(init) : init[j] = last
            THEN FirstOccurrences(init)
            ELSE Append(FirstOccurrences(init), last)

TierRecipients(originalRecipients, config) ==
  FirstOccurrences(Flatten(
    [i \in 1..Len(originalRecipients) |->
       TierDestinations(Normalized(originalRecipients[i], config),
                        config.forwardMapping)]))

\* C1: what every original address contributes is the destination list of
\* exactly one key: its exact key, else its '@domain' key, else its mailbox
\* key, else the catch-all '@', else nothing.
C1_TierPrecedence ==
  Resolved => data.recipients = TierRecipients(data.originalRecipients, data.config)

\* C2: with allowPlusSign, 'user+tag@domain' resolves to what 'user@domain'
\* resolves to; without it, 'user+tag' is a local part of its own.
C2_PlusSign ==
  Resolved =>
    IF data.config.allowPlusSign
      THEN data.recipients =
             NewRecipients(<<>>,
                           [i \in 1..Len(data.originalRecipients) |->
                              WithoutTag(data.originalRecipients[i])],
                           data.config).recipients
      ELSE data.recipients = TierRecipients(data.originalRecipients, data.config)

Contributions ==
  Flatten([i \in 1..Len(data.originalRecipients) |->
             Forwarded(data.originalRecipients[i], data.config).emails])

\* C9: the resolved list holds no destination twice, and is in the order of
\* first occurrence along the original recipients.
C9_NoDuplicates ==
  Resolved =>
    /\ \A i, j \in 1..Len(data.recipients) :
         data.recipients[i] = data.recipients[j] => i = j
    /\ data.recipients = FirstOccurrences(Contributions)

\* Two original addresses with overlapping destination lists were resolved.
C9_Witness ==
  /\ Resolved
  /\ Len(data.originalRecipients) = 2
  /\ data.originalRecipients[1] # data.originalRecipients[2]
  /\ Len(data.recipients) >= 3
  /\ Len(Contributions) > Len(data.recipients)

(***************************************************************************)
(* The pipeline (section 4.6).                                             *)
(***************************************************************************)
\* A trigger event that is not one record of source aws:ses, version 1.0.
Malformed(event) ==
  \/ ~event.present
  \/ ~event.hasRecords
  \/ Len(event.Records) # 1
  \/ \E i \in 1..Len(event.Records) :
       \/ ~event.Records[i].hasEventSource
       \/ event.Records[i].eventSource # "aws:ses"
       \/ event.Records[i].eventVersion # "1.0"

Failure == Len(callbacks) = 1 /\ callbacks[1].error # "null"

Success == callbacks = <<[error |-> "null", result |-> "Success"]>>

\* C3: the stages run in the order parse, resolve, fetch, transform, send;
\* the first failure ends the run with an error; nothing is fetched or sent
\* for a malformed event, nothing is sent after a failed fetch, and success
\* is reported only after the send succeeded.
C3_StagesInOrder ==
  /\ Len(trace) <= Len(Steps)
  /\ \A i \in 1..Len(trace) : trace[i] = Steps[i]
  /\ Len(s3Calls) <= 1 /\ Len(sesCalls) <= 1
  /\ (Len(s3Calls) = 1) = (Len(trace) >= 3)
  /\ (Len(sesCalls) = 1) = (Len(trace) = 5)
  /\ (pc = "failed") = Failure
  /\ (pc = "done") = Success
  /\ pc \notin {"failed", "done"} => callbacks = <<>>
  /\ Malformed(data.event) => s3Calls = <<>> /\ sesCalls = <<>>
  /\ Len(trace) >= 4 => s3Calls[1].reply = "ok"
  /\ Failure /\ callbacks[1].error = "Error: Failed to load message body from S3."
       => s3Calls[1].reply = "error" /\ sesCalls = <<>>
  /\ Failure /\ callbacks[1].error = "Error: Email sending failed."
       => sesCalls[1].reply = "error"
  /\ Success => sesCalls[1].reply = "ok"

\* A run that stopped at the failed fetch, with nothing sent.
C3_Witness ==
  /\ pc = "failed"
  /\ trace = <<"parseEvent", "transformRecipients", "fetchMessage">>
  /\ s3Calls[1].reply = "error"
  /\ sesCalls = <<>>

Processed == Len(trace) >= 4

\* C5: without fromEmail, every From header becomes its text with "<" turned
\* into "at " and ">" dropped, followed by the original destination address
\* in angle brackets.
C5_FromKeepsDestination ==
  (Processed /\ Len(data.config.fromEmail) = 0 /\ Len(data.originalRecipients) > 0)
    => \E i \in 1..Len(data.originalRecipients) :
         data.emailData =
           ProcessMessage(s3.body, data.config, data.originalRecipients[i])

\* C8: the send request's source is an address of the event's recipient
\* list, and its destinations are the resolved recipients.
C8_SendSource ==
  (Len(sesCalls) = 1 /\ Len(data.originalRecipients) > 0)
    => /\ \E i \in 1..Len(data.originalRecipients) :
            sesCalls[1].Source = data.originalRecipients[i]
       /\ sesCalls[1].Destinations = data.recipients

NoTierMatches ==
  /\ ~Malformed(data.event)
  /\ data.event.Records[1].hasSes
  /\ TierRecipients(data.event.Records[1].recipients, data.config) = <<>>

\* C10: when no original recipient matches a tier, the resolved list is
\* empty and the run goes on: the only failures are those of the fetch and
\* of the send, and after a fetch that succeeded exactly one send request,
\* with no destination, decides the result.
C10_EmptyStillSends ==
  NoTierMatches =>
    /\ Resolved => data.recipients = <<>>
    /\ Len(trace) = 2 => pc = "fetchMessage"
    /\ Failure => callbacks[1].error \in
                    {"Error: Failed to load message body from S3.",
                     "Error: Email sending failed."}
    /\ (pc \in {"done", "failed"} /\ Len(s3Calls) = 1 /\ s3Calls[1].reply = "ok")
         => /\ Len(sesCalls) = 1
            /\ sesCalls[1].Destinations = <<>>
            /\ Success = (sesCalls[1].reply = "ok")
            /\ Failure = (sesCalls[1].reply = "error")

(***************************************************************************)
(* The header block and the body as the specification words them (section  *)
(* 4.4): physical lines, the first blank line, folded headers.             *)
(***************************************************************************)
\* The physical lines of a text, each with its line end.
RECURSIVE PhysicalLines(_)
PhysicalLines(text) ==
  IF Len(text) = 0 THEN <<>>
  ELSE LET n == IndexOf(text, "\n", 1)
       IN IF n = 0 THEN <<text>>
          ELSE <<Sub(text, 1, n + 1)>> \o PhysicalLines(Rest(text, n + 1))

IsBlankLine(line) == line \in { <<"\n">>, <<"\r", "\n">> }

\* The index of the first blank line, or one past the last line.
FirstBlank(lines) ==
  CHOOSE k \in 1..(Len(lines) + 1) :
    /\ \A j \in 1..(k - 1) : ~IsBlankLine(lines[j])
    /\ k = Len(lines) + 1 \/ IsBlankLine(lines[k])

HeaderLinesOf(text) ==
  LET lines == PhysicalLines(text) IN Sub(lines, 1, FirstBlank(lines))

HeaderBlock(text) == Flatten(HeaderLinesOf(text))

BodyOf(text) ==
  LET lines == PhysicalLines(text) IN Flatten(Rest(lines, FirstBlank(lines)))

IsSuffix(x, s) == Len(x) <= Len(s) /\ Rest(s, Len(s) - Len(x) + 1) = x

Named(line, name) ==
  Len(line) > 0 /\ line[1] \in DOMAIN LowerName /\ LowerName[line[1]] = name

IsContinuation(line) == Len(line) > 0 /\ line[1] \in {" ", "\t"}

\* The line that starts the header which line i of `lines` is part of.
Owner(lines, i) ==
  CHOOSE k \in 1..i :
    /\ \A j \in (k + 1)..i : IsContinuation(lines[j])
    /\ k = 1 \/ ~IsContinuation(lines[k])

\* The last line of the header that starts at line i.
LastOf(lines, i) ==
  CHOOSE e \in i..Len(lines) :
    /\ \A j \in (i + 1)..e : IsContinuation(lines[j])
    /\ e = Len(lines) \/ ~IsContinuation(lines[e + 1])

\* The text of the header that starts at line i, folded lines included.
HeaderText(lines, i) == Flatten(Sub(lines, i, LastOf(lines, i) + 1))

\* A header's value: its text after the name and one blank, if any.
ValueOf(text) ==
  IF Len(text) >= 2 /\ text[2] \in {" ", "\t"} THEN Rest(text, 3) ELSE Rest(text, 2)

HasHeader(lines, name) == \E i \in 1..Len(lines) : Named(lines[i], name)

FirstNamed(lines, name) ==
  CHOOSE i \in 1..Len(lines) :
    Named(lines[i], name) /\ \A j \in 1..(i - 1) : ~Named(lines[j], name)

CountNamed(lines, name) == Cardinality({ i \in 1..Len(lines) : Named(lines[i], name) })

\* C4: header + body is the input, and the output ends with the input's
\* bytes from the first blank line on.
C4_BodyUntouched ==
  Processed =>
    /\ SplitHeader(s3.body) \o SplitBody(s3.body) = s3.body
    /\ IsSuffix(BodyOf(s3.body), data.emailData)

\* C6: a Reply-To header with the value of From, folded lines included, is
\* appended exactly when the header block has a From line and no Reply-To
\* line; a Reply-To header that is there stays as it is, folded lines
\* included, and none is added.
C6_ReplyTo ==
  Processed =>
    LET in == HeaderLinesOf(s3.body)
        out == HeaderLinesOf(data.emailData)
    IN IF HasHeader(in, "from:") /\ ~HasHeader(in, "reply-to:")
         THEN /\ CountNamed(out, "reply-to:") = 1
              /\ IsSuffix(<<"Reply-To:", " ">>
                            \o ValueOf(HeaderText(in, FirstNamed(in, "from:"))),
                          Flatten(out))
         ELSE /\ CountNamed(out, "reply-to:") = CountNamed(in, "reply-to:")
              /\ \A i \in 1..Len(in) :
                   Named(in[i], "reply-to:")
                     => \E j \in 1..Len(out) :
                          /\ Named(out[j], "reply-to:")
                          /\ HeaderText(out, j) = HeaderText(in, i)

Removed == {"return-path:", "sender:", "message-id:", "dkim-signature:"}

\* A header block without the lines, first and folded, of the four headers.
RECURSIVE Keep(_, _)
Keep(lines, i) ==
  IF i > Len(lines) THEN <<>>
  ELSE (IF \E name \in Removed : Named(lines[Owner(lines, i)], name)
          THEN <<>> ELSE lines[i])
         \o Keep(lines, i + 1)

WithoutRemoved(header) == Keep(PhysicalLines(header), 1)

\* C7: the Return-Path, Sender, Message-ID and DKIM-Signature headers leave
\* no line behind: what processMessage stores is the rewritten header
\* without the first line and the folded lines of each of them.
C7_HeadersRemoved ==
  Processed =>
    data.emailData =
      WithoutRemoved(ReplaceTo(PrefixSubject(
        RewriteFrom(AddReplyTo(SplitHeader(s3.body)), data.config,
                    Field(data, "originalRecipient")),
        data.config), data.config))
        \o SplitBody(s3.body)

====
